---- MODULE Spec2Model ----
(***************************************************************************)
(* Model of the optical-state orchestration of gmt-cfd-psf:                *)
(*   - WindLoads, the down-sampling iterator over the M1/M2 rigid body     *)
(*     motion matrix (src/src/optical_model/windloads.rs);                 *)
(*   - GmtOpticalModel, the orchestrator that owns the CRSEO objects and   *)
(*     the two optional drivers (src/src/optical_model.rs);                *)
(*   - the command line run and the web generation session that drive an   *)
(*     orchestrator (src/cli/src/main.rs, src/web/src/server.rs).          *)
(*                                                                         *)
(* Three specifications share the variables:                               *)
(*   SpecWindLoads  a freshly constructed WindLoads polled with next();    *)
(*   Spec           one GmtOpticalModel driven by an arbitrary caller of   *)
(*                  its public methods;                                    *)
(*   SpecRun        the statement sequence of the CLI main() and of the    *)
(*                  web psf_generation().                                  *)
(*                                                                         *)
(* Option<T> is the empty tuple (None) or a one-element tuple (Some).      *)
(***************************************************************************)
EXTENDS Integers, Sequences, FiniteSets, TLC

VARIABLES
    wl,         \* SpecWindLoads: the WindLoads value under test
    out,        \* SpecWindLoads: the results of the next() calls so far
    m,          \* the GmtOpticalModel value
    live,       \* FALSE once a consuming attach returned Err (value dropped)
    op,         \* name of the last method called on the orchestrator
    psf,        \* the PSF returned by the last read_detector
    estimate,   \* the value returned by the last compute_pssn
    nadv,       \* number of ray_trace calls since GmtOpticalModel::new
    wlAt,       \* value of nadv when the wind loads driver was attached
    reads,      \* read_detector calls since the last ray_trace: 0, 1, 2 = two or more
    pc,         \* SpecRun: position in main() / psf_generation()
    args,       \* SpecRun: the command line arguments / the PsfConfig
    psfs,       \* SpecRun: the PSFs collection
    fi,         \* SpecRun: the frame loop index
    FRAME_ID,   \* SpecRun: the shared progress counter of the web server
    images,     \* SpecRun: the GeneratedImage list of psf_generation
    result,     \* SpecRun: what main() / psf_generation() returned
    progress,   \* SpecRun: the writes of FRAME_ID and the get_frame_id polls
    files,      \* SpecPSFs: the frame images written by save_all_frames
    long,       \* SpecPSFs: the long exposure image written by sum().save()
    batch,      \* SpecBatch: main() of pssn-batch, its tasks and its map
    enc,        \* SpecEnclosure: a CFD case and its enclosure configuration
    cl          \* SpecClient: the web client, its tasks and the server sessions

vars == <<wl, out, m, live, op, psf, estimate, nadv, wlAt, reads,
          pc, args, psfs, fi, FRAME_ID, images, result,
          progress, files, long, batch, enc, cl>>

libvars == <<m, live, op, psf, estimate, nadv, wlAt, reads>>
wlvars  == <<wl, out>>
runvars == <<pc, args, psfs, fi, FRAME_ID, images, result>>
auxvars == <<progress, files, long, batch, enc, cl>>

----------------------------------------------------------------------------
(* Program constants                                                       *)

\* WindLoads::new: the first 5 s (5000 samples at 1 kHz) are skipped
SKIP == 5000
\* WindLoads::new: 1000 Hz / 5 Hz down-sampling factor
STEP == 200
\* ray_trace: rbms.split_at(42), the M1 rows are the first 42
SPLIT == 42

\* lib.rs: DETECTOR_SIZE, the side of the square detector in pixels
DETECTOR_SIZE == 760

\* pssn-batch main.rs: .chunks(8), the number of cases run concurrently
CHUNK == 8

(* Bounds of the model                                                     *)

\* matrices have up to SKIP + STEP * MaxStrides + STEP columns
MaxStrides == 2
\* next() calls on the WindLoads under test in SpecWindLoads
MaxNext == 6
\* dome seeing drivers hold up to MaxOpd OPD samples
MaxOpd == 2
\* ray_trace calls per orchestrator in Spec
MaxAdvance == 3
\* compute_pssn calls per orchestrator in Spec
MaxPssn == 1
\* n_frame / N_SAMPLE of a run in SpecRun
MaxFrames == 3

\* pixels of a frame whose values are tracked
NPix == 2
\* largest intensity of a pixel of a short exposure
MaxValue == 2
\* frames pushed into a collection in SpecPSFs
MaxPush == 2

\* cases of the CFD baseline in SpecBatch
MaxCases == 9

\* get_frame_id polls of the client during one run
MaxPolls == 2

\* submits of the web client (one session each) in SpecClient
MaxSubmits == 2
\* frames of a generation run in SpecClient (N_SAMPLE of the web crate)
NSample == 2

\* marker of "no value" in integer positions of the observation log
NONE == -1
\* outcome of reading a column outside the matrix (nalgebra panics)
PANIC == -2

None == <<>>
Some(x) == <<x>>
IsSome(o) == o # <<>>

\* column counts of the structural-motion matrices that are tried
NCols ==
    {0, 1, SKIP - 1, SKIP} \cup
    {SKIP + STEP * a + b : a \in 0..MaxStrides, b \in {1, 2, STEP - 1, STEP}}

\* column counts tried for the driver attached to an orchestrator
LibNCols ==
    {0, SKIP} \cup {SKIP + STEP * a + b : a \in 0..(MaxStrides - 1), b \in {1, STEP}}

\* lengths of the dome seeing series that are tried
DsLens == 0..MaxOpd

----------------------------------------------------------------------------
(* WindLoads                                                               *)

WindLoads_new(ncols) ==
    [ncols |-> ncols, step |-> STEP, count |-> SKIP]

\* rbms.column(i): the data of column i, identified by its index;
\* nalgebra panics when i is not a column of the matrix
column(w, i) == IF i < w.ncols THEN i ELSE PANIC

\* faulty variant: the bound test is <= instead of <
WindLoads_next_le(w) ==
    LET i == w.count IN
    IF i <= w.ncols
    THEN [self |-> [w EXCEPT !.count = @ + w.step], ret |-> Some(column(w, i))]
    ELSE [self |-> w, ret |-> None]

\* faulty variant: the cursor advances by one column instead of the stride
WindLoads_next_nostep(w) ==
    LET i == w.count IN
    IF i < w.ncols
    THEN [self |-> [w EXCEPT !.count = @ + 1], ret |-> Some(column(w, i))]
    ELSE [self |-> w, ret |-> None]

\* faulty variant: the cursor rewinds when the data is exhausted
WindLoads_next_rewind(w) ==
    LET i == w.count IN
    IF i < w.ncols
    THEN [self |-> [w EXCEPT !.count = @ + w.step], ret |-> Some(column(w, i))]
    ELSE [self |-> [w EXCEPT !.count = SKIP], ret |-> None]

\* faulty variant: the cursor does not advance
WindLoads_next_stuck(w) ==
    LET i == w.count IN
    IF i < w.ncols
    THEN [self |-> w, ret |-> Some(column(w, i))]
    ELSE [self |-> w, ret |-> None]

\* faulty variant: the series starts over after its last sample
WindLoads_next_cycle(w) ==
    LET i == w.count IN
    IF i < w.ncols
    THEN [self |-> [w EXCEPT !.count = IF i + w.step < w.ncols
                                       THEN i + w.step ELSE SKIP],
          ret |-> Some(column(w, i))]
    ELSE [self |-> w, ret |-> None]

\* faulty variant: the cursor advances before the bound test is known to pass
WindLoads_next_eager(w) ==
    LET i == w.count IN
    IF i < w.ncols
    THEN [self |-> [w EXCEPT !.count = @ + w.step], ret |-> Some(column(w, i))]
    ELSE [self |-> [w EXCEPT !.count = @ + w.step], ret |-> None]

WindLoads_next(w) ==
    LET i == w.count IN
    IF i < w.ncols
    THEN [self |-> [w EXCEPT !.count = @ + w.step], ret |-> Some(column(w, i))]
    ELSE [self |-> w, ret |-> None]

----------------------------------------------------------------------------
(* DomeSeeing (gmt_dos_clients_domeseeing), used through Iterator::next:   *)
(* an advancing series of OPD maps, a sample is identified by its index    *)

DomeSeeing_new(len) == [len |-> len, cursor |-> 0]

DomeSeeing_next(d) ==
    IF d.cursor < d.len
    THEN [self |-> [d EXCEPT !.cursor = @ + 1], ret |-> Some(d.cursor)]
    ELSE [self |-> d, ret |-> None]

----------------------------------------------------------------------------
(* GmtOpticalModel                                                         *)
(*   gmt   the rigid body positions of M1 and M2 (crseo Gmt)               *)
(*   src   the wavefront of the source: the mirror positions it was ray    *)
(*         traced through and the OPD maps added since (crseo Source)      *)
(*   imgr  the wavefronts integrated by the detector since its last reset  *)
(*   pssn  the wavefronts integrated by the PSSn estimator                 *)
(*   log   the calls made on the CRSEO objects and on the drivers by the   *)
(*         last method, in the order they were made                        *)

Nominal == [col |-> NONE, rows |-> "nominal"]

\* Config (Rc<Config>): the overlay metadata; a label is a tuple of strings,
\* the empty tuple when it is not set
Config_new == [turbulence_effects |-> <<>>, cfd_case |-> <<>>]

\* the builders called on get_config(): a new Config with one label set
turbulence_effects(config, value) == [config EXCEPT !.turbulence_effects = value]
cfd_case(config, value) == [config EXCEPT !.cfd_case = value]

\* PSFs::new(&config): an empty collection sharing the configuration
PSFs_new(config) == [config |-> config, frames |-> <<>>]

\* psfs.push(psf)
push(c, frame) == [c EXCEPT !.frames = Append(@, frame)]

\* faulty variant: the collection starts from a configuration of its own
PSFs_from_default(g) == PSFs_new(Config_new)

\* impl From<&GmtOpticalModel> for PSFs
PSFs_from(g) == PSFs_new(g.config)

GmtOpticalModel_new ==
    [gmt |-> [m1 |-> Nominal, m2 |-> Nominal],
     src |-> [m1 |-> Nominal, m2 |-> Nominal, opd |-> <<>>],
     imgr |-> <<>>, pssn |-> <<>>,
     domeseeing |-> None, windloads |-> None,
     config |-> Config_new, log |-> <<>>]

get_config(g) == g.config

\* faulty variant: installing a configuration also clears the detector
set_config_reset(g, config) ==
    [g EXCEPT !.config = config, !.imgr = <<>>, !.log = <<>>]

\* self.config = config
set_config(g, config) == [g EXCEPT !.config = config, !.log = <<>>]

\* load is what building the driver gave: None when it failed, Some(size)
\* otherwise. Ok(self) with the driver in place, or Err; self is consumed
\* either way.
domeseeing(g, load) ==
    IF load = None THEN [ok |-> FALSE, self |-> g]
    ELSE [ok |-> TRUE,
          self |-> [g EXCEPT !.domeseeing = Some(DomeSeeing_new(load[1])),
                             !.log = <<>>]]

\* faulty variant: the driver is put on a freshly built orchestrator
windloads_fresh(g, load) ==
    IF load = None THEN [ok |-> FALSE, self |-> g]
    ELSE [ok |-> TRUE,
          self |-> [GmtOpticalModel_new EXCEPT
                        !.windloads = Some(WindLoads_new(load[1]))]]

windloads(g, load) ==
    IF load = None THEN [ok |-> FALSE, self |-> g]
    ELSE [ok |-> TRUE,
          self |-> [g EXCEPT !.windloads = Some(WindLoads_new(load[1])),
                             !.log = <<>>]]

\* gmt.update42(Some(m1_rbms), Some(m2_rbms), None, None) after
\* rbms.split_at(42)
update42(g, rbms) ==
    [g EXCEPT !.gmt = [m1 |-> [col |-> rbms, rows |-> "..42"],
                       m2 |-> [col |-> rbms, rows |-> "42.."]],
              !.log = Append(@, <<"update42", rbms>>)]

\* faulty variant: an exhausted driver puts the mirrors back to nominal
rt_windloads_zero(g) ==
    IF g.windloads = None THEN g
    ELSE LET r  == WindLoads_next(g.windloads[1])
             g1 == [g EXCEPT !.windloads = Some(r.self),
                             !.log = Append(@, <<"windloads.next",
                                   IF r.ret = None THEN NONE ELSE r.ret[1]>>)]
         IN  IF r.ret = None
             THEN [g1 EXCEPT !.gmt = [m1 |-> Nominal, m2 |-> Nominal]]
             ELSE update42(g1, r.ret[1])

\* faulty variant: the driver is polled twice and the second sample applied
rt_windloads_twice(g) ==
    IF g.windloads = None THEN g
    ELSE LET r0 == WindLoads_next(g.windloads[1])
             r  == WindLoads_next(r0.self)
             g1 == [g EXCEPT !.windloads = Some(r.self),
                             !.log = Append(Append(@, <<"windloads.next",
                                   IF r0.ret = None THEN NONE ELSE r0.ret[1]>>),
                                   <<"windloads.next",
                                   IF r.ret = None THEN NONE ELSE r.ret[1]>>)]
         IN  IF r.ret = None THEN g1 ELSE update42(g1, r.ret[1])

\* self.windloads.as_mut().map(|windloads| windloads.next().map(...))
rt_windloads(g) ==
    IF g.windloads = None THEN g
    ELSE LET r  == WindLoads_next(g.windloads[1])
             g1 == [g EXCEPT !.windloads = Some(r.self),
                             !.log = Append(@, <<"windloads.next",
                                   IF r.ret = None THEN NONE ELSE r.ret[1]>>)]
         IN  IF r.ret = None THEN g1 ELSE update42(g1, r.ret[1])

\* self.src.through(&mut self.gmt).xpupil()
rt_xpupil(g) ==
    [g EXCEPT !.src = [m1 |-> g.gmt.m1, m2 |-> g.gmt.m2, opd |-> <<>>],
              !.log = Append(@, <<"xpupil", 0>>)]

\* faulty variant: an exhausted driver adds its last OPD map again
rt_domeseeing_hold(g) ==
    IF g.domeseeing = None THEN g
    ELSE LET d  == g.domeseeing[1]
             r  == DomeSeeing_next(d)
             g1 == [g EXCEPT !.domeseeing = Some(r.self),
                             !.log = Append(@, <<"domeseeing.next",
                                   IF r.ret = None THEN NONE ELSE r.ret[1]>>)]
         IN  IF r.ret = None
             THEN IF d.len = 0 THEN g1
                  ELSE [g1 EXCEPT !.src.opd = Append(@, d.len - 1),
                                  !.log = Append(@, <<"add", d.len - 1>>)]
             ELSE [g1 EXCEPT !.src.opd = Append(@, r.ret[1]),
                             !.log = Append(@, <<"add", r.ret[1]>>)]

\* self.domeseeing.as_mut().map(|d| d.next().map(|opd| self.src.add(opd)))
rt_domeseeing(g) ==
    IF g.domeseeing = None THEN g
    ELSE LET r  == DomeSeeing_next(g.domeseeing[1])
             g1 == [g EXCEPT !.domeseeing = Some(r.self),
                             !.log = Append(@, <<"domeseeing.next",
                                   IF r.ret = None THEN NONE ELSE r.ret[1]>>)]
         IN  IF r.ret = None THEN g1
             ELSE [g1 EXCEPT !.src.opd = Append(@, r.ret[1]),
                             !.log = Append(@, <<"add", r.ret[1]>>)]

\* faulty variant: the detector keeps the last exposure only
rt_imgr_overwrite(g) ==
    [g EXCEPT !.imgr = <<g.src>>,
              !.log = Append(@, <<"imgr", 0>>)]

\* self.src.through(&mut self.imgr)
rt_imgr(g) ==
    [g EXCEPT !.imgr = Append(@, g.src),
              !.log = Append(@, <<"imgr", 0>>)]

\* faulty variant: the rigid body update comes after the pupil propagation
ray_trace_late_rbm(g) ==
    rt_imgr(rt_domeseeing(rt_windloads(rt_xpupil([g EXCEPT !.log = <<>>]))))

ray_trace(g) ==
    rt_imgr(rt_domeseeing(rt_xpupil(rt_windloads([g EXCEPT !.log = <<>>]))))

\* faulty variant: the detector is reset along with the estimate
compute_pssn_reset(g) ==
    LET p == Append(g.pssn, g.src) IN
    [self |-> [g EXCEPT !.pssn = p, !.imgr = <<>>, !.log = <<<<"pssn", 0>>>>],
     ret |-> p]

\* self.src.through(&mut self.pssn); self.pssn.estimates()[0]
compute_pssn(g) ==
    LET p == Append(g.pssn, g.src) IN
    [self |-> [g EXCEPT !.pssn = p, !.log = <<<<"pssn", 0>>>>], ret |-> p]

\* faulty variant: the detector is not reset
read_detector_noreset(g) ==
    [self |-> [g EXCEPT !.log = <<<<"frame", 0>>>>],
     ret  |-> [config |-> g.config, frame |-> g.imgr, pssn |-> <<>>]]

\* frame = self.imgr.frame(); self.imgr.reset(); PSF::new(&self.config, frame)
read_detector(g) ==
    [self |-> [g EXCEPT !.imgr = <<>>, !.log = <<<<"frame", 0>>, <<"reset", 0>>>>],
     ret  |-> [config |-> g.config, frame |-> g.imgr, pssn |-> <<>>]]

----------------------------------------------------------------------------
(* SpecWindLoads: a freshly constructed driver polled with next()          *)

LibIdle ==
    /\ m = GmtOpticalModel_new
    /\ live = TRUE
    /\ op = "new"
    /\ psf = [config |-> Config_new, frame |-> <<>>, pssn |-> <<>>]
    /\ estimate = <<>>
    /\ nadv = 0
    /\ wlAt = NONE
    /\ reads = 0

RunIdle ==
    /\ pc = "idle"
    /\ args = [prog |-> "none", domeseeing |-> FALSE, windloads |-> FALSE,
               series |-> "OpenLoop", n_frame |-> 0]
    /\ psfs = PSFs_new(Config_new)
    /\ fi = 0
    /\ FRAME_ID = 0
    /\ images = <<>>
    /\ result = "running"

\* no store to FRAME_ID and no get_frame_id poll yet; seen is the value the
\* last poll returned
ProgressIdle == [writes |-> 0, polls |-> 0, seen |-> 0]

\* the variables of the other specifications, at rest
AuxIdle ==
    /\ progress = ProgressIdle
    /\ files = None
    /\ long = None
    /\ batch = [pc |-> "idle"]
    /\ enc = [pc |-> "idle"]
    /\ cl = [pc |-> "idle"]

InitWindLoads ==
    /\ \E n \in NCols : wl = WindLoads_new(n)
    /\ out = <<>>
    /\ LibIdle
    /\ RunIdle
    /\ AuxIdle

WlNext ==
    /\ Len(out) < MaxNext
    /\ LET r == WindLoads_next(wl) IN
        /\ wl' = r.self
        /\ out' = Append(out, r.ret)
    /\ UNCHANGED <<libvars, runvars, auxvars>>

NextWindLoads == WlNext

SpecWindLoads == InitWindLoads /\ [][NextWindLoads]_vars

----------------------------------------------------------------------------
(* Spec: one orchestrator, its public methods called in any order; each    *)
(* driver is attached at most once, as every caller in the repository does *)

\* the configurations a caller hands to set_config
LibConfigs == {Config_new, turbulence_effects(Config_new, <<"Dome Seeing">>)}

WlIdle ==
    /\ wl = WindLoads_new(0)
    /\ out = <<>>

Init ==
    /\ LibIdle
    /\ WlIdle
    /\ RunIdle
    /\ AuxIdle

SetConfig ==
    /\ live
    /\ \E c \in LibConfigs :
        /\ c # get_config(m)
        /\ m' = set_config(m, c)
    /\ op' = "set_config"
    /\ UNCHANGED <<live, psf, estimate, nadv, wlAt, reads, wlvars, auxvars, runvars>>

AttachDomeSeeing ==
    /\ live
    /\ m.domeseeing = None
    /\ \E load \in {None} \cup {Some(n) : n \in DsLens} :
        LET r == domeseeing(m, load) IN
        /\ m' = r.self
        /\ live' = r.ok
    /\ op' = "domeseeing"
    /\ UNCHANGED <<psf, estimate, nadv, wlAt, reads, wlvars, auxvars, runvars>>

AttachWindLoads ==
    /\ live
    /\ m.windloads = None
    /\ \E load \in {None} \cup {Some(n) : n \in LibNCols} :
        LET r == windloads(m, load) IN
        /\ m' = r.self
        /\ live' = r.ok
        /\ wlAt' = IF r.ok THEN nadv ELSE wlAt
    /\ op' = "windloads"
    /\ UNCHANGED <<psf, estimate, nadv, reads, wlvars, auxvars, runvars>>

RayTrace ==
    /\ live
    /\ nadv < MaxAdvance
    /\ m' = ray_trace(m)
    /\ nadv' = nadv + 1
    /\ reads' = 0
    /\ op' = "ray_trace"
    /\ UNCHANGED <<live, psf, estimate, wlAt, wlvars, auxvars, runvars>>

ComputePssn ==
    /\ live
    /\ Len(m.pssn) < MaxPssn
    /\ LET r == compute_pssn(m) IN
        /\ m' = r.self
        /\ estimate' = r.ret
    /\ op' = "compute_pssn"
    /\ UNCHANGED <<live, psf, nadv, wlAt, reads, wlvars, auxvars, runvars>>

ReadDetector ==
    /\ live
    /\ LET r == read_detector(m) IN
        /\ m' = r.self
        /\ psf' = r.ret
    /\ reads' = IF reads < 2 THEN reads + 1 ELSE 2
    /\ op' = "read_detector"
    /\ UNCHANGED <<live, estimate, nadv, wlAt, wlvars, auxvars, runvars>>

Next ==
    \/ SetConfig
    \/ AttachDomeSeeing
    \/ AttachWindLoads
    \/ RayTrace
    \/ ComputePssn
    \/ ReadDetector

Spec == Init /\ [][Next]_vars

----------------------------------------------------------------------------
(* SpecRun: main() of the CLI and psf_generation() of the web server, one  *)
(* action per statement that touches the orchestrator or can return.       *)
(* io is the outcome of the fallible calls of the statement (the ? in the  *)
(* source): FALSE makes the function return the error.                     *)

\* --windloads [fsm|asm|asm2] of the CLI, RbmTimeSeries of the web form
CliSeries == {"OpenLoop", "Fsm", "Asm", "Asm2"}
WebSeries == {"OpenLoop", "Fsm", "Asm"}

RunArgs ==
    {a \in [prog : {"cli", "web"}, domeseeing : BOOLEAN, windloads : BOOLEAN,
            series : CliSeries, n_frame : 0..MaxFrames] :
        /\ a.prog = "web" => a.series \in WebSeries
        /\ (a.prog = "cli" /\ ~a.windloads) => a.series = "OpenLoop"}

InitRun ==
    /\ LibIdle
    /\ WlIdle
    /\ pc = "new"
    /\ args \in RunArgs
    /\ psfs = PSFs_new(Config_new)
    /\ fi = 0
    /\ FRAME_ID \in 0..MaxFrames
    /\ images = <<>>
    /\ result = "running"
    /\ AuxIdle

\* return Err(..) / the ? operator
Fail(msg) ==
    /\ pc' = "done"
    /\ result' = msg

\* cli 95, web 40-44: GmtOpticalModel::new()?, create_dir_all(&output_dir)?
RunNew ==
    /\ pc = "new"
    /\ \E io \in BOOLEAN :
        IF io THEN pc' = "reference" /\ UNCHANGED result
        ELSE Fail("err")
    /\ UNCHANGED <<libvars, wlvars, auxvars, args, psfs, fi, FRAME_ID, images>>

\* faulty variant: the reference frame is read without a ray_trace
RunReference_noadvance ==
    /\ pc = "reference"
    /\ LET r == read_detector(m) IN
        /\ m' = r.self
        /\ psf' = r.ret
    /\ reads' = 1
    /\ op' = "read_detector"
    /\ \E io \in BOOLEAN :
        IF io
        THEN /\ pc' = "effects"
             /\ images' = IF args.prog = "web"
                          THEN Append(images, "Diffraction Limited")
                          ELSE images
             /\ UNCHANGED result
        ELSE Fail("err") /\ UNCHANGED images
    /\ UNCHANGED <<live, estimate, nadv, wlAt, wlvars, auxvars, args, psfs, fi, FRAME_ID>>

\* cli 98, web 47-53: gmt.ray_trace().read_detector().save("psf.png")?
RunReference ==
    /\ pc = "reference"
    /\ LET r == read_detector(ray_trace(m)) IN
        /\ m' = r.self
        /\ psf' = r.ret
    /\ nadv' = nadv + 1
    /\ reads' = 1
    /\ op' = "read_detector"
    /\ \E io \in BOOLEAN :
        IF io
        THEN /\ pc' = "effects"
             /\ images' = IF args.prog = "web"
                          THEN Append(images, "Diffraction Limited")
                          ELSE images
             /\ UNCHANGED result
        ELSE Fail("err") /\ UNCHANGED images
    /\ UNCHANGED <<live, estimate, wlAt, wlvars, auxvars, args, psfs, fi, FRAME_ID>>

\* cli 102-109: the label of the wind loads option
WindLoadsTag(a) ==
    IF a.prog = "web" THEN a.series
    ELSE CASE a.series = "Fsm"  -> "(Wind Loads - FSM)"
           [] a.series = "Asm"  -> "(Wind Loads - ASM)"
           [] a.series = "Asm2" -> "(Wind Loads - ASM2)"
           [] OTHER             -> "WindLoads"

\* cli 110-115, web 56-61: None stands for the (false, false) arm
TurbulenceEffects(a) ==
    IF a.domeseeing /\ a.windloads THEN Some(<<"Dome Seeing + ", WindLoadsTag(a)>>)
    ELSE IF a.domeseeing THEN Some(<<"Dome Seeing">>)
    ELSE IF a.windloads THEN Some(<<WindLoadsTag(a)>>)
    ELSE None

\* cli 110-117, web 56-65
RunEffects ==
    /\ pc = "effects"
    /\ LET e == TurbulenceEffects(args) IN
        IF e = None
        THEN /\ pc' = "done"
             /\ result' = IF args.prog = "cli"
                          THEN "you must select either domeseeing or windloads"
                          ELSE "ok"
             /\ images' = <<>>
             /\ UNCHANGED <<m, op>>
        ELSE /\ m' = set_config(m, turbulence_effects(get_config(m), e[1]))
             /\ op' = "set_config"
             /\ pc' = "cfd"
             /\ UNCHANGED <<result, images>>
    /\ UNCHANGED <<live, psf, estimate, nadv, wlAt, reads, wlvars, auxvars, args, psfs,
                   fi, FRAME_ID>>

\* cli 131-132, web 73-74: CfdCase::colloquial(..)?, set_config(cfd_case)
RunCfdCase ==
    /\ pc = "cfd"
    /\ \E io \in BOOLEAN :
        IF io
        THEN /\ m' = set_config(m, cfd_case(get_config(m), <<"cfd_case">>))
             /\ op' = "set_config"
             /\ pc' = "domeseeing"
             /\ UNCHANGED result
        ELSE Fail("err") /\ UNCHANGED <<m, op>>
    /\ UNCHANGED <<live, psf, estimate, nadv, wlAt, reads, wlvars, auxvars, args, psfs,
                   fi, FRAME_ID, images>>

\* cli 134-139, web 77-83
RunDomeSeeing ==
    /\ pc = "domeseeing"
    /\ IF args.domeseeing
       THEN \E load \in {None} \cup {Some(n) : n \in DsLens} :
                LET r == domeseeing(m, load) IN
                /\ m' = r.self
                /\ live' = r.ok
                /\ op' = "domeseeing"
                /\ IF r.ok THEN pc' = "windloads" /\ UNCHANGED result
                   ELSE Fail("err")
       ELSE /\ pc' = "windloads"
            /\ UNCHANGED <<m, live, op, result>>
    /\ UNCHANGED <<psf, estimate, nadv, wlAt, reads, wlvars, auxvars, args, psfs, fi,
                   FRAME_ID, images>>

\* cli 141-158, web 86-95
RunWindLoads ==
    /\ pc = "windloads"
    /\ IF args.windloads
       THEN \E load \in {None} \cup {Some(n) : n \in LibNCols} :
                LET r == windloads(m, load) IN
                /\ m' = r.self
                /\ live' = r.ok
                /\ wlAt' = IF r.ok THEN nadv ELSE wlAt
                /\ op' = "windloads"
                /\ IF r.ok THEN pc' = "collection" /\ UNCHANGED result
                   ELSE Fail("err")
       ELSE /\ pc' = "collection"
            /\ UNCHANGED <<m, live, op, wlAt, result>>
    /\ UNCHANGED <<psf, estimate, nadv, reads, wlvars, auxvars, args, psfs, fi,
                   FRAME_ID, images>>

\* cli 161-166, web 98: create_dir_all(frames_dir)? (cli), PSFs::from(&gmt)
RunCollection ==
    /\ pc = "collection"
    /\ \E io \in {TRUE} \cup {b \in {FALSE} : args.prog = "cli"} :
        IF io
        THEN /\ psfs' = PSFs_from(m)
             /\ fi' = 0
             /\ pc' = "loop"
             /\ UNCHANGED result
        ELSE Fail("err") /\ UNCHANGED <<psfs, fi>>
    /\ UNCHANGED <<libvars, wlvars, auxvars, args, FRAME_ID, images>>

\* faulty variant: the index of the frame is read back from the counter
RunFrame_fromcounter ==
    /\ pc = "loop"
    /\ fi < args.n_frame
    /\ FRAME_ID' = IF args.prog = "web" THEN fi ELSE FRAME_ID
    /\ progress' = IF args.prog = "web"
                   THEN [progress EXCEPT !.writes = @ + 1] ELSE progress
    /\ LET r == read_detector(ray_trace(m))
           p == compute_pssn(r.self)
       IN
        /\ m' = p.self
        /\ psf' = [r.ret EXCEPT !.pssn = Some(p.ret)]
        /\ estimate' = p.ret
        /\ psfs' = push(psfs, [r.ret EXCEPT !.pssn = Some(p.ret)])
    /\ nadv' = nadv + 1
    /\ reads' = 1
    /\ op' = "compute_pssn"
    /\ fi' = IF args.prog = "web" /\ FRAME_ID + 1 > fi THEN FRAME_ID + 1 ELSE fi + 1
    /\ UNCHANGED <<live, wlAt, wlvars, files, long, batch, enc, cl, pc, args, images, result>>

\* faulty variant: the loop ends when the wind loads are exhausted
RunFrame_untilexhausted ==
    /\ pc = "loop"
    /\ fi < args.n_frame
    /\ FRAME_ID' = IF args.prog = "web" THEN fi ELSE FRAME_ID
    /\ progress' = IF args.prog = "web"
                   THEN [progress EXCEPT !.writes = @ + 1] ELSE progress
    /\ LET r == read_detector(ray_trace(m))
           p == compute_pssn(r.self)
           exhausted == /\ m.windloads # None
                        /\ WindLoads_next(m.windloads[1]).ret = None
       IN
        /\ m' = p.self
        /\ psf' = [r.ret EXCEPT !.pssn = Some(p.ret)]
        /\ estimate' = p.ret
        /\ psfs' = IF exhausted THEN psfs
                   ELSE push(psfs, [r.ret EXCEPT !.pssn = Some(p.ret)])
        /\ fi' = IF exhausted THEN args.n_frame ELSE fi + 1
    /\ nadv' = nadv + 1
    /\ reads' = 1
    /\ op' = "compute_pssn"
    /\ UNCHANGED <<live, wlAt, wlvars, files, long, batch, enc, cl, pc, args, images, result>>

\* cli 189-196, web 100-109: one iteration of the frame loop,
\* FRAME_ID.store(i, Relaxed) (web), then
\* psfs.push(gmt.ray_trace().read_detector().pssn_value(gmt.compute_pssn()))
RunFrame ==
    /\ pc = "loop"
    /\ fi < args.n_frame
    /\ FRAME_ID' = IF args.prog = "web" THEN fi ELSE FRAME_ID
    /\ progress' = IF args.prog = "web"
                   THEN [progress EXCEPT !.writes = @ + 1] ELSE progress
    /\ LET r == read_detector(ray_trace(m))
           p == compute_pssn(r.self)
       IN
        /\ m' = p.self
        /\ psf' = [r.ret EXCEPT !.pssn = Some(p.ret)]
        /\ estimate' = p.ret
        /\ psfs' = push(psfs, [r.ret EXCEPT !.pssn = Some(p.ret)])
    /\ nadv' = nadv + 1
    /\ reads' = 1
    /\ op' = "compute_pssn"
    /\ fi' = fi + 1
    /\ UNCHANGED <<live, wlAt, wlvars, files, long, batch, enc, cl, pc, args, images, result>>

\* cli 199-226, web 111-134: psfs.save_all_frames(..)?, psfs.sum().save(..)?
RunSave ==
    /\ pc = "loop"
    /\ fi >= args.n_frame
    /\ \E io \in BOOLEAN :
        IF io
        THEN /\ pc' = "done"
             /\ result' = "ok"
             /\ images' = IF args.prog = "web"
                          THEN Append(images, "Long exposure PSF")
                          ELSE images
        ELSE Fail("err") /\ UNCHANGED images
    /\ UNCHANGED <<libvars, wlvars, auxvars, args, psfs, fi, FRAME_ID>>

\* web 183-186, get_frame_id: the client reads the counter while the
\* generation request is pending
RunPoll ==
    /\ args.prog = "web"
    /\ pc # "done"
    /\ progress.polls < MaxPolls
    /\ progress' = [progress EXCEPT !.polls = @ + 1, !.seen = FRAME_ID]
    /\ UNCHANGED <<libvars, wlvars, runvars, files, long, batch, enc, cl>>

NextRun ==
    \/ RunPoll
    \/ RunNew
    \/ RunReference
    \/ RunEffects
    \/ RunCfdCase
    \/ RunDomeSeeing
    \/ RunWindLoads
    \/ RunCollection
    \/ RunFrame
    \/ RunSave

SpecRun == InitRun /\ [][NextRun]_vars

----------------------------------------------------------------------------
(* PSF and PSFs (psfs.rs): rendering of a collection.                      *)
(* A pixel buffer is its number of elements and the values of NPix of its  *)
(* pixels, [n |-> .., px |-> <<..>>]; a written image is the values it was *)
(* rendered from and the divisor that normalised them.                     *)

Max2(a, b) == IF a >= b THEN a ELSE b

\* the largest value of a pixel buffer
RECURSIVE BufMaxTo(_, _)
BufMaxTo(px, k) == IF k = 0 THEN 0 ELSE Max2(px[k], BufMaxTo(px, k - 1))
BufMax(buf) == BufMaxTo(buf.px, Len(buf.px))

\* the largest pixel value over the records of a collection
RECURSIVE GlobalMaxTo(_, _)
GlobalMaxTo(frames, k) ==
    IF k = 0 THEN 0 ELSE Max2(BufMax(frames[k].frame), GlobalMaxTo(frames, k - 1))
GlobalMax(c) == GlobalMaxTo(c.frames, Len(c.frames))

\* the buffer of the configured detector size with every pixel at zero
ZeroBuf == [n |-> DETECTOR_SIZE * DETECTOR_SIZE, px |-> [k \in 1..NPix |-> 0]]

AddBuf(a, b) == [n |-> a.n, px |-> [k \in 1..Len(a.px) |-> a.px[k] + b.px[k]]]

\* psf.save(path): the record rendered with its own maximum
save(record, name) ==
    [name |-> name, px |-> record.frame.px, divisor |-> BufMax(record.frame)]

\* psfs.save_all_frames(dir): one image per record, in index order, all
\* normalised by the maximum over the collection
save_all_frames(c) ==
    [i \in 1..Len(c.frames) |->
        [name |-> <<"frame", i>>, px |-> c.frames[i].frame.px,
         divisor |-> GlobalMax(c)]]

\* faulty variant: the first record is left out of the sum
RECURSIVE sum_skip_first_to(_, _)
sum_skip_first_to(frames, k) ==
    IF k <= 1 THEN ZeroBuf
    ELSE AddBuf(sum_skip_first_to(frames, k - 1), frames[k].frame)
sum_skip_first(c) ==
    [config |-> c.config, frame |-> sum_skip_first_to(c.frames, Len(c.frames)),
     pssn |-> None]

\* psfs.sum(): the record whose buffer is the pixel-wise sum of the records
RECURSIVE sum_to(_, _)
sum_to(frames, k) ==
    IF k = 0 THEN ZeroBuf ELSE AddBuf(sum_to(frames, k - 1), frames[k].frame)
sum(c) ==
    [config |-> c.config, frame |-> sum_to(c.frames, Len(c.frames)),
     pssn |-> None]

\* psfs.len()
len(c) == Len(c.frames)

----------------------------------------------------------------------------
(* SpecPSFs: a collection filled with frames and rendered as main() and    *)
(* psf_generation() do: push in the frame loop, then save_all_frames and   *)
(* sum().save()                                                            *)

\* the pixel buffers a read_detector may hand over
Buffers ==
    {[n |-> DETECTOR_SIZE * DETECTOR_SIZE, px |-> f] :
        f \in [1..NPix -> 0..MaxValue]}

InitPSFs ==
    /\ LibIdle
    /\ WlIdle
    /\ RunIdle
    /\ AuxIdle

\* cli 190-194, web 102-108: psfs.push(..) in the frame loop
PsfsPush ==
    /\ files = None /\ long = None
    /\ len(psfs) < MaxPush
    /\ \E b \in Buffers :
        psfs' = push(psfs, [config |-> psfs.config, frame |-> b, pssn |-> None])
    /\ UNCHANGED <<libvars, wlvars, pc, args, fi, FRAME_ID, images, result,
                   progress, files, long, batch, enc, cl>>

\* faulty variant: every record is saved on its own with psf.save()
PsfsSaveAll_each ==
    /\ files = None
    /\ files' = Some([i \in 1..len(psfs) |->
                        save(psfs.frames[i], <<"frame", i>>)])
    /\ UNCHANGED <<libvars, wlvars, runvars, progress, long, batch, enc, cl>>

\* cli 203-205, web 114: psfs.save_all_frames(..)
PsfsSaveAll ==
    /\ files = None
    /\ files' = Some(save_all_frames(psfs))
    /\ UNCHANGED <<libvars, wlvars, runvars, progress, long, batch, enc, cl>>

\* faulty variant: the long exposure is normalised as the short exposures
PsfsSumSave_shared ==
    /\ long = None
    /\ long' = Some([save(sum(psfs), <<"long_exposure_psf">>)
                        EXCEPT !.divisor = GlobalMax(psfs)])
    /\ UNCHANGED <<libvars, wlvars, runvars, progress, files, batch, enc, cl>>

\* cli 206, web 116-117: psfs.sum().save("long_exposure_psf.png")
PsfsSumSave ==
    /\ long = None
    /\ long' = Some(save(sum(psfs), <<"long_exposure_psf">>))
    /\ UNCHANGED <<libvars, wlvars, runvars, progress, files, batch, enc, cl>>

NextPSFs ==
    \/ PsfsPush
    \/ PsfsSaveAll
    \/ PsfsSumSave

SpecPSFs == InitPSFs /\ [][NextPSFs]_vars

----------------------------------------------------------------------------
(* SpecBatch: main() of pssn-batch. The cases of the baseline are numbered *)
(* 1..n; batch.tasks[i] is the state of the task spawned for case i:       *)
(* "idle" (not spawned), "running", "ok" or "err" (returned Ok / returned  *)
(* Err or panicked). batch.pssns is the BTreeMap, batch.written the map    *)
(* pickled to the output file, batch.result the return of main: "ok",      *)
(* "task_err" (h.await?? failed) or "err" (an I/O error of main itself).   *)

\* cfd_case.to_string(): the key of a case in the map
CaseKey(i) == <<"cfd_case", i>>

\* gmt.compute_pssn() of the task of case i
CasePssn(i) == <<"pssn", i>>

\* the cases of chunk c (from 0) of a baseline of n cases
ChunkOf(i) == (i - 1) \div CHUNK
ChunkLast(c, n) == IF (c + 1) * CHUNK <= n THEN (c + 1) * CHUNK ELSE n

\* pssns.insert(case, pssn)
insert(map, key, value) ==
    [k \in (DOMAIN map) \cup {key} |-> IF k = key THEN value ELSE map[k]]

InitBatch ==
    /\ LibIdle
    /\ WlIdle
    /\ RunIdle
    /\ progress = ProgressIdle /\ files = None /\ long = None /\ enc = [pc |-> "idle"]
    /\ cl = [pc |-> "idle"]
    /\ \E n \in 0..MaxCases :
        batch = [pc |-> IF n = 0 THEN "write" ELSE "spawn",
                 n |-> n, next |-> 1, j |-> 1,
                 tasks |-> [i \in 1..n |-> "idle"],
                 pssns |-> <<>>, written |-> None, result |-> "running"]

BatchFrame == UNCHANGED <<libvars, wlvars, runvars, progress, files, long, enc, cl>>

\* faulty variant: the cases are not chunked, every case is spawned at once
BatchSpawn_unchunked ==
    /\ batch.pc = "spawn"
    /\ LET i == batch.next IN
        batch' = [batch EXCEPT !.tasks[i] = "running",
                               !.next = i + 1,
                               !.pc = IF i = batch.n THEN "clear" ELSE "spawn"]
    /\ BatchFrame

\* 44-75: h.push(tokio::spawn(async move {..})) for the next case of the chunk
BatchSpawn ==
    /\ batch.pc = "spawn"
    /\ LET i == batch.next IN
        batch' = [batch EXCEPT !.tasks[i] = "running",
                               !.next = i + 1,
                               !.pc = IF i = ChunkLast(ChunkOf(i), batch.n)
                                      THEN "clear" ELSE "spawn"]
    /\ BatchFrame

\* 48-74: the task of case i runs to its end on a worker thread; it returns
\* Ok((case, pssn)), or Err from one of its ? (or panics)
TaskFinish ==
    /\ batch.pc # "done"
    /\ \E i \in 1..batch.n : \E r \in {"ok", "err"} :
        /\ batch.tasks[i] = "running"
        /\ batch' = [batch EXCEPT !.tasks[i] = r]
    /\ BatchFrame

\* 76: mpb.clear()?
BatchClear ==
    /\ batch.pc = "clear"
    /\ \E io \in BOOLEAN :
        batch' = IF io THEN [batch EXCEPT !.pc = "await"]
                 ELSE [batch EXCEPT !.pc = "done", !.result = "err"]
    /\ BatchFrame

\* faulty variant: the entry is keyed by the first case of the chunk
BatchAwait_chunkkey ==
    /\ batch.pc = "await"
    /\ LET i == batch.j IN
        /\ batch.tasks[i] \in {"ok", "err"}
        /\ batch' =
            IF batch.tasks[i] = "err"
            THEN [batch EXCEPT !.pc = "done", !.result = "task_err"]
            ELSE [batch EXCEPT
                    !.pssns = insert(@, CaseKey(ChunkOf(i) * CHUNK + 1), CasePssn(i)),
                    !.j = i + 1,
                    !.pc = IF i < batch.next - 1 THEN "await"
                           ELSE IF i < batch.n THEN "spawn" ELSE "write"]
    /\ BatchFrame

\* 77-80: let (case, pssn) = h.await??; pssns.insert(case, pssn);
\* the await returns once the task of the handle has finished
BatchAwait ==
    /\ batch.pc = "await"
    /\ LET i == batch.j IN
        /\ batch.tasks[i] \in {"ok", "err"}
        /\ batch' =
            IF batch.tasks[i] = "err"
            THEN [batch EXCEPT !.pc = "done", !.result = "task_err"]
            ELSE [batch EXCEPT
                    !.pssns = insert(@, CaseKey(i), CasePssn(i)),
                    !.j = i + 1,
                    !.pc = IF i < batch.next - 1 THEN "await"
                           ELSE IF i < batch.n THEN "spawn" ELSE "write"]
    /\ BatchFrame

\* 82-87: serde_pickle::to_writer(&mut File::create(..)?, &pssns, ..)?
BatchWrite ==
    /\ batch.pc = "write"
    /\ \E io \in BOOLEAN :
        batch' = IF io
                 THEN [batch EXCEPT !.pc = "done", !.result = "ok",
                                    !.written = Some(batch.pssns)]
                 ELSE [batch EXCEPT !.pc = "done", !.result = "err"]
    /\ BatchFrame

NextBatch ==
    \/ BatchSpawn
    \/ TaskFinish
    \/ BatchClear
    \/ BatchAwait
    \/ BatchWrite

SpecBatch == InitBatch /\ [][NextBatch]_vars

----------------------------------------------------------------------------
(* SpecCase: the task of one CFD case of pssn-batch (main.rs 48-74), on    *)
(* its own orchestrator. batch.every tells how ray_trace_all reports the   *)
(* end of the data; batch.ticks counts pb.tick().                          *)

\* GmtOpticalModel::ray_trace_all is not in src/: an advance that returns
\* None when the sources report no further sample, either as soon as one
\* attached driver is exhausted (every) or once all of them are
ray_trace_all(g, every) ==
    LET wlGot == g.windloads # None /\ WindLoads_next(g.windloads[1]).ret # None
        dsGot == g.domeseeing # None /\ DomeSeeing_next(g.domeseeing[1]).ret # None
        more  == IF every
                 THEN (g.windloads = None \/ wlGot) /\ (g.domeseeing = None \/ dsGot)
                      /\ (wlGot \/ dsGot)
                 ELSE wlGot \/ dsGot
    IN  [self |-> ray_trace(g), ret |-> IF more THEN Some(0) ELSE None]

CaseTask(pc_, every, ticks, result_) ==
    [pc |-> pc_, every |-> every, ticks |-> ticks, result |-> result_]

InitCase ==
    /\ LibIdle
    /\ WlIdle
    /\ RunIdle
    /\ progress = ProgressIdle /\ files = None /\ long = None /\ enc = [pc |-> "idle"]
    /\ cl = [pc |-> "idle"]
    /\ \E every \in BOOLEAN : batch = CaseTask("task_new", every, 0, "running")

CaseFrame == UNCHANGED <<wlvars, runvars, progress, files, long, enc, cl>>

\* 51: GmtOpticalModel::new()?
CaseNew ==
    /\ batch.pc = "task_new"
    /\ \E io \in BOOLEAN :
        batch' = IF io THEN [batch EXCEPT !.pc = "task_domeseeing"]
                 ELSE [batch EXCEPT !.pc = "task_done", !.result = "err"]
    /\ UNCHANGED libvars
    /\ CaseFrame

\* 53-58: gmt.domeseeing(..).await?
CaseDomeSeeing ==
    /\ batch.pc = "task_domeseeing"
    /\ \E load \in {None} \cup {Some(n) : n \in DsLens} :
        LET r == domeseeing(m, load) IN
        /\ m' = r.self
        /\ batch' = IF r.ok THEN [batch EXCEPT !.pc = "task_windloads"]
                    ELSE [batch EXCEPT !.pc = "task_done", !.result = "err"]
    /\ op' = "domeseeing"
    /\ UNCHANGED <<live, psf, estimate, nadv, wlAt, reads>>
    /\ CaseFrame

\* 60-67: gmt.windloads(..).await?
CaseWindLoads ==
    /\ batch.pc = "task_windloads"
    /\ \E load \in {None} \cup {Some(n) : n \in NCols} :
        LET r == windloads(m, load) IN
        /\ m' = r.self
        /\ wlAt' = IF r.ok THEN nadv ELSE wlAt
        /\ batch' = IF r.ok THEN [batch EXCEPT !.pc = "task_loop"]
                    ELSE [batch EXCEPT !.pc = "task_done", !.result = "err"]
    /\ op' = "windloads"
    /\ UNCHANGED <<live, psf, estimate, nadv, reads>>
    /\ CaseFrame

\* 69-71: while gmt.ray_trace_all().is_some() { pb.tick(); }
CaseRayTraceAll ==
    /\ batch.pc = "task_loop"
    /\ LET r == ray_trace_all(m, batch.every) IN
        /\ m' = r.self
        /\ batch' = IF r.ret # None THEN [batch EXCEPT !.ticks = @ + 1]
                    ELSE [batch EXCEPT !.pc = "task_pssn"]
    /\ nadv' = nadv + 1
    /\ reads' = 0
    /\ op' = "ray_trace"
    /\ UNCHANGED <<live, psf, estimate, wlAt>>
    /\ CaseFrame

\* 72-73: pb.finish(); Ok((cfd_case.to_string(), gmt.compute_pssn()))
CaseFinish ==
    /\ batch.pc = "task_pssn"
    /\ LET r == compute_pssn(m) IN
        /\ m' = r.self
        /\ estimate' = r.ret
    /\ batch' = [batch EXCEPT !.pc = "task_done", !.result = "ok"]
    /\ op' = "compute_pssn"
    /\ UNCHANGED <<live, psf, nadv, wlAt, reads>>
    /\ CaseFrame

NextCase ==
    \/ CaseNew
    \/ CaseDomeSeeing
    \/ CaseWindLoads
    \/ CaseRayTraceAll
    \/ CaseFinish

SpecCase == InitCase /\ [][NextCase]_vars

\* 48: tokio::spawn; the task runs on a worker thread and has no await
\* inside the loop, so each of its steps is taken once it is enabled
SpecCaseFair == SpecCase /\ WF_vars(NextCase)

----------------------------------------------------------------------------
(* SpecEnclosure: the CFD case axes of lib.rs and the enclosure             *)
(* configuration the CLI and the web server derive from them.               *)
(* An enum value is the name of its variant.                                *)

ZenithAngles == {"Zero", "Thirty", "Sixty"}
ElevationAngles == {"Ninety", "Thirty", "Sixty"}
AzimuthAngles == {"Zero", "FortyFive", "Ninety", "OneThirtyFive", "OneEighty"}
WindSpeeds == {"Two", "Seven", "Twelve", "Seventeen"}

\* ZenithAngle::as_u32
ZenithAngle_as_u32(z) ==
    CASE z = "Zero" -> 0 [] z = "Thirty" -> 30 [] z = "Sixty" -> 60

\* ElevationAngle::as_u32
ElevationAngle_as_u32(e) ==
    CASE e = "Ninety" -> 90 [] e = "Thirty" -> 30 [] e = "Sixty" -> 60

\* AzimuthAngle::as_u32
AzimuthAngle_as_u32(a) ==
    CASE a = "Zero" -> 0 [] a = "FortyFive" -> 45 [] a = "Ninety" -> 90
      [] a = "OneThirtyFive" -> 135 [] a = "OneEighty" -> 180

\* WindSpeed::as_u32
WindSpeed_as_u32(w) ==
    CASE w = "Two" -> 2 [] w = "Seven" -> 7 [] w = "Twelve" -> 12
      [] w = "Seventeen" -> 17

\* impl From<ElevationAngle> for ZenithAngle
ZenithAngle_from(e) ==
    CASE e = "Ninety" -> "Zero" [] e = "Thirty" -> "Sixty" [] e = "Sixty" -> "Thirty"

\* telescope_pointing.into(): a pointing is [kind |-> "zenith" or
\* "elevation", angle |-> the variant]
into(pointing) ==
    IF pointing.kind = "elevation" THEN ZenithAngle_from(pointing.angle)
    ELSE pointing.angle

\* faulty variant: the open sky limit is exclusive
get_enclosure_config_lt(wind_speed, telescope_pointing) ==
    IF wind_speed < 7 THEN "os"
    ELSE IF ZenithAngle_as_u32(into(telescope_pointing)) < 60 THEN "cd"
    ELSE "cs"

get_enclosure_config(wind_speed, telescope_pointing) ==
    IF wind_speed <= 7 THEN "os"
    ELSE IF ZenithAngle_as_u32(into(telescope_pointing)) < 60 THEN "cd"
    ELSE "cs"

\* the CLI takes a zenith angle, the web form an elevation angle
Pointings ==
    [kind : {"zenith"}, angle : ZenithAngles]
        \cup [kind : {"elevation"}, angle : ElevationAngles]

InitEnclosure ==
    /\ LibIdle
    /\ WlIdle
    /\ RunIdle
    /\ progress = ProgressIdle /\ files = None /\ long = None
    /\ batch = [pc |-> "idle"]
    /\ cl = [pc |-> "idle"]
    /\ \E w \in WindSpeeds, p \in Pointings, a \in AzimuthAngles :
        enc = [pc |-> "args", wind_speed |-> w, pointing |-> p, azimuth |-> a,
               case |-> <<>>]

\* cli 120-123, web 68-71: the four axes of the CFD case
EnclosureConfig ==
    /\ enc.pc = "args"
    /\ LET zenith == ZenithAngle_as_u32(into(enc.pointing))
           azimuth == AzimuthAngle_as_u32(enc.azimuth)
           wind_speed == WindSpeed_as_u32(enc.wind_speed)
           enclosure == get_enclosure_config(wind_speed, enc.pointing)
       IN enc' = [enc EXCEPT !.pc = "done",
                             !.case = <<zenith, azimuth, enclosure, wind_speed>>]
    /\ UNCHANGED <<libvars, wlvars, runvars, progress, files, long, batch, cl>>

NextEnclosure == EnclosureConfig

SpecEnclosure == InitEnclosure /\ [][NextEnclosure]_vars

----------------------------------------------------------------------------
(* SpecClient: the PsfGenerator component of the web client, with the      *)
(* tasks it spawns, and the server functions they call. A submit is one    *)
(* session, numbered from 1 (the Uuid of the source; 0 is the empty id).   *)
(* cl.status is the generation_status signal, cl.poller[s] and cl.gen[s]   *)
(* the two tasks of session s, cl.srv[s] the psf_generation call of        *)
(* session s on the server and cl.FRAME_ID the counter of the server, with *)
(* the session that stored it last (0: an earlier run).                    *)
(* A progress is a percentage in units of 1 / N_SAMPLE. A task that has    *)
(* ended keeps none of its locals.                                         *)

Sessions == 1..MaxSubmits

\* the two check boxes of the form
Effects == [domeseeing : BOOLEAN, windloads : BOOLEAN]

\* ((frame_id + 1) as f32 / N_SAMPLE as f32) * 100.0
Progress(frame_id) == (frame_id + 1) * 100
Progress0 == 0
Progress100 == 100 * NSample

GenerationStatus(session_id, status, percent, imgs) ==
    [session_id |-> session_id, status |-> status, progress |-> percent,
     images |-> imgs]

InitClient ==
    /\ LibIdle
    /\ WlIdle
    /\ RunIdle
    /\ progress = ProgressIdle /\ files = None /\ long = None
    /\ batch = [pc |-> "idle"] /\ enc = [pc |-> "idle"]
    /\ \E v \in 0..(NSample - 1) :
        cl = [pc |-> "client",
              nsub |-> 0,
              status |-> GenerationStatus(0, "Idle", None, <<>>),
              poller |-> [s \in Sessions |-> [pc |-> "none"]],
              gen |-> [s \in Sessions |-> [pc |-> "none", images |-> <<>>]],
              srv |-> [s \in Sessions |->
                        [pc |-> "none", config |-> None, fi |-> 0, ret |-> None,
                         answered |-> FALSE]],
              FRAME_ID |-> [value |-> v, by |-> 0]]

ClientFrame == UNCHANGED <<libvars, wlvars, runvars, progress, files, long, batch, enc>>

\* faulty variant: the form is sent without the validation of 54-65
Submit_novalidation ==
    /\ cl.pc = "client"
    /\ cl.nsub < MaxSubmits
    /\ \E config_value \in Effects :
        LET session_id == cl.nsub + 1 IN
        cl' = [cl EXCEPT
                !.nsub = session_id,
                !.status = GenerationStatus(session_id, "Processing",
                                            Some(Progress0), <<>>),
                !.poller[session_id] = [pc |-> "wait"],
                !.gen[session_id] = [pc |-> "generation", images |-> <<>>],
                !.srv[session_id] = [pc |-> "start", config |-> Some(config_value),
                                     fi |-> 0, ret |-> None, answered |-> FALSE]]
    /\ ClientFrame

\* psf_generator 50-152, generate_psf: the submit of the form
Submit ==
    /\ cl.pc = "client"
    /\ cl.nsub < MaxSubmits
    /\ \E config_value \in Effects :
        LET session_id == cl.nsub + 1 IN
        IF ~config_value.domeseeing /\ ~config_value.windloads
        THEN cl' = [cl EXCEPT
                !.nsub = session_id,
                !.status = GenerationStatus(session_id, "Error", None, <<>>)]
        ELSE cl' = [cl EXCEPT
                !.nsub = session_id,
                !.status = GenerationStatus(session_id, "Processing",
                                            Some(Progress0), <<>>),
                !.poller[session_id] = [pc |-> "wait"],
                !.gen[session_id] = [pc |-> "generation", images |-> <<>>],
                !.srv[session_id] = [pc |-> "start", config |-> Some(config_value),
                                     fi |-> 0, ret |-> None, answered |-> FALSE]]
    /\ ClientFrame

\* psf_generation has returned ret: None for Err, Some(images) for Ok;
\* answered becomes TRUE when the client has taken the answer
Returned(ret) ==
    [pc |-> "ret", config |-> None, fi |-> 0, ret |-> ret, answered |-> FALSE]

\* server 29-98: psf_generation up to the frame loop; io is the outcome of
\* its fallible calls
SrvStart ==
    /\ cl.pc = "client"
    /\ \E s \in Sessions : \E io \in BOOLEAN :
        /\ cl.srv[s].pc = "start"
        /\ LET config == cl.srv[s].config[1] IN
            cl' = IF ~io
                  THEN [cl EXCEPT !.srv[s] = Returned(None)]
                  ELSE IF ~config.domeseeing /\ ~config.windloads
                  THEN [cl EXCEPT !.srv[s] = Returned(Some(<<>>))]
                  ELSE [cl EXCEPT !.srv[s].pc = "loop", !.srv[s].config = None]
    /\ ClientFrame

\* server 100-109: FRAME_ID.store(i, Relaxed) and the frame i
SrvFrame ==
    /\ cl.pc = "client"
    /\ \E s \in Sessions :
        /\ cl.srv[s].pc = "loop"
        /\ cl.srv[s].fi < NSample
        /\ cl' = [cl EXCEPT !.FRAME_ID = [value |-> cl.srv[s].fi, by |-> s],
                            !.srv[s].fi = @ + 1]
    /\ ClientFrame

\* server 111-134: the frames and the long exposure are saved, Ok(images)
SrvSave ==
    /\ cl.pc = "client"
    /\ \E s \in Sessions : \E io \in BOOLEAN :
        /\ cl.srv[s].pc = "loop"
        /\ cl.srv[s].fi >= NSample
        /\ cl' = [cl EXCEPT
                    !.srv[s] = Returned(IF io
                                        THEN Some(<<"Diffraction Limited",
                                                    "Long exposure PSF">>)
                                        ELSE None)]
    /\ ClientFrame

\* psf_generator 113-123, 143-149: psf_generation(..).await returned
GenReturn ==
    /\ cl.pc = "client"
    /\ \E s \in Sessions :
        /\ cl.gen[s].pc = "generation"
        /\ cl.srv[s].pc = "ret"
        /\ cl.srv[s].answered = FALSE
        /\ LET ret == cl.srv[s].ret IN
            cl' = IF ret = None
                  THEN [cl EXCEPT !.status = GenerationStatus(s, "Error", None, <<>>),
                                  !.gen[s].pc = "done",
                                  !.srv[s] = [Returned(None) EXCEPT !.answered = TRUE]]
                  ELSE [cl EXCEPT !.status.images = ret[1],
                                  !.status.progress = Some(Progress100),
                                  !.gen[s].images = ret[1],
                                  !.gen[s].pc = IF Len(ret[1]) >= 2 THEN "animation"
                                                ELSE "panicked",
                                  !.srv[s] = [Returned(None) EXCEPT !.answered = TRUE]]
    /\ ClientFrame

\* psf_generator 124-141: psf_animation(output_dir).await returned
AnimReturn ==
    /\ cl.pc = "client"
    /\ \E s \in Sessions : \E io \in BOOLEAN :
        /\ cl.gen[s].pc = "animation"
        /\ cl' = IF io
                 THEN [cl EXCEPT
                        !.status.images = Append(cl.gen[s].images,
                                                 "Short exposure PSFs animation"),
                        !.status.status = "Complete",
                        !.status.progress = Some(Progress100),
                        !.gen[s] = [pc |-> "done", images |-> <<>>]]
                 ELSE [cl EXCEPT !.status = GenerationStatus(s, "Error", None, <<>>),
                                 !.gen[s] = [pc |-> "done", images |-> <<>>]]
    /\ ClientFrame

\* faulty variant: the poller goes on until the status is Complete
PollerTick_untilcomplete ==
    /\ cl.pc = "client"
    /\ \E s \in Sessions :
        /\ cl.poller[s].pc = "wait"
        /\ cl' = [cl EXCEPT !.poller[s].pc = IF cl.status.status # "Complete"
                                             THEN "get" ELSE "stopped"]
    /\ ClientFrame

\* psf_generator 82-86, 104-107: a tick of the interval of the poller
PollerTick ==
    /\ cl.pc = "client"
    /\ \E s \in Sessions :
        /\ cl.poller[s].pc = "wait"
        /\ cl' = [cl EXCEPT !.poller[s].pc = IF cl.status.status = "Processing"
                                             THEN "get" ELSE "stopped"]
    /\ ClientFrame

\* psf_generator 87-102; server 183-186: get_frame_id() answers with the
\* counter, which is turned into the progress of the session of the
\* poller, or it fails and the poller goes on
PollerGet ==
    /\ cl.pc = "client"
    /\ \E s \in Sessions : \E io \in BOOLEAN :
        /\ cl.poller[s].pc = "get"
        /\ LET frame_id == cl.FRAME_ID.value IN
            cl' = IF io /\ cl.status.session_id = s
                  THEN [cl EXCEPT !.status.progress = Some(Progress(frame_id)),
                                  !.poller[s].pc = "wait"]
                  ELSE [cl EXCEPT !.poller[s].pc = "wait"]
    /\ ClientFrame

NextClient ==
    \/ Submit
    \/ SrvStart
    \/ SrvFrame
    \/ SrvSave
    \/ GenReturn
    \/ AnimReturn
    \/ PollerTick
    \/ PollerGet

SpecClient == InitClient /\ [][NextClient]_vars

\* psf_generator 79-80, 112; server 12-134: the two tasks of a submit are
\* spawned on the executor of the browser and the interval fires every
\* second; a server function that has been called runs to its return.
\* The user is free to submit or not.
SpecClientFair ==
    /\ SpecClient
    /\ WF_vars(SrvStart \/ SrvFrame \/ SrvSave \/ GenReturn \/ AnimReturn)
    /\ WF_vars(PollerTick \/ PollerGet)

\* the three entry points of a generation: main() of the CLI, the server
\* function called on its own, the form of the web client
InitRunClient == InitRun \/ InitClient

NextRunClient == NextRun \/ NextClient

SpecRunClient == InitRunClient /\ [][NextRunClient]_vars

----------------------------------------------------------------------------
(* Claims on SpecWindLoads                                                 *)

\* C1: for a matrix of N >= 5001 columns a fresh driver returns exactly
\* floor((N - 5000 - 1) / 200) + 1 samples before the first None, and the
\* k-th returned sample (k from 0) is column 5000 + 200 * k.
C1_SampleCountAndColumns ==
    wl.ncols >= 5001 =>
        \A k \in 1..Len(out) :
            (\A j \in 1..(k - 1) : out[j] # None) =>
                IF out[k] = None
                THEN k - 1 = ((wl.ncols - 5000 - 1) \div 200) + 1
                ELSE out[k] = Some(5000 + 200 * (k - 1))

\* a matrix of 5201..5400 columns gave two samples and then None
C1_Witness ==
    /\ wl.ncols >= 5001
    /\ Len(out) >= 3
    /\ out[1] = Some(5000)
    /\ out[2] = Some(5200)
    /\ out[3] = None

\* C2: for a matrix of N <= 5000 columns (N = 0 included) the first next()
\* of a fresh driver returns None and the driver yields no sample at all.
C2_ShortMatrixYieldsNothing ==
    wl.ncols <= 5000 => \A k \in 1..Len(out) : out[k] = None

\* a matrix of exactly 5000 columns was polled and answered None
C2_Witness ==
    /\ wl.ncols = 5000
    /\ Len(out) >= 1
    /\ out[1] = None

\* C3: once next() has returned None every later next() on the same driver
\* returns None, and no next() fails or reads a column index >= the column
\* count.
C3_ExhaustionPermanent ==
    /\ \A i \in 1..Len(out) : \A j \in i..Len(out) :
            out[i] = None => out[j] = None
    /\ \A k \in 1..Len(out) :
            IsSome(out[k]) => (out[k][1] # PANIC /\ out[k][1] >= 0
                               /\ out[k][1] < wl.ncols)

\* a driver that gave a sample, then None, was polled twice more
C3_Witness ==
    /\ Len(out) >= 4
    /\ out[1] # None
    /\ out[2] = None
    /\ out[4] = None


----------------------------------------------------------------------------
(* Claims on Spec                                                          *)

\* positions in a log of the calls named ev
At(log, ev) == {i \in 1..Len(log) : log[i][1] = ev}
Has(log, ev) == At(log, ev) # {}

\* the cursor of a driver reached or passed the end of its data
WlExhausted(w) == w.count >= w.ncols
DsExhausted(d) == d.cursor >= d.len

\* C4: every ray_trace does, in this order, (1) the pull of the wind loads
\* sample and the M1/M2 rigid body update, (2) the propagation to the pupil,
\* (3) the pull of the dome seeing sample and its addition to the wavefront,
\* (4) the propagation through the detector; no rigid body update comes
\* after the pupil propagation, no wavefront addition before it or after the
\* detector propagation.
C4_FixedOrder ==
    op = "ray_trace" =>
        LET L == m.log IN
        /\ Cardinality(At(L, "xpupil")) = 1
        /\ Cardinality(At(L, "imgr")) = 1
        /\ At(L, "imgr") = {Len(L)}
        /\ \A p \in At(L, "xpupil") :
            /\ \A i \in At(L, "windloads.next") \cup At(L, "update42") : i < p
            /\ \A i \in At(L, "domeseeing.next") \cup At(L, "add") :
                    p < i /\ i < Len(L)
        /\ (m.windloads # None) = Has(L, "windloads.next")
        /\ (m.domeseeing # None) = Has(L, "domeseeing.next")
        \* the pupil propagation saw the updated mirrors, the detector the
        \* wavefront with the dome seeing added
        /\ m.src.m1 = m.gmt.m1 /\ m.src.m2 = m.gmt.m2
        /\ m.imgr[Len(m.imgr)] = m.src

\* a ray_trace in which both drivers gave a sample
C4_Witness ==
    /\ op = "ray_trace"
    /\ Has(m.log, "update42")
    /\ Has(m.log, "add")

\* C5: a ray_trace with an exhausted wind loads driver raises no error,
\* leaves the positions of M1 and M2 as the last applied sample set them,
\* and still does the pupil propagation, the dome seeing step and the
\* detector propagation.
C5_ExhaustedWindLoadsSkipped ==
    [][(op' = "ray_trace" /\ m.windloads # None
            /\ WlExhausted(m.windloads[1])) =>
        /\ live'
        /\ m'.gmt = m.gmt
        /\ m'.windloads = m.windloads
        /\ ~Has(m'.log, "update42")
        /\ Has(m'.log, "xpupil")
        /\ (m.domeseeing # None) = Has(m'.log, "domeseeing.next")
        /\ Has(m'.log, "imgr")
        /\ Len(m'.imgr) = Len(m.imgr) + 1
        /\ m'.src.m1 = m.gmt.m1 /\ m'.src.m2 = m.gmt.m2]_vars

\* the driver had given column 5000 before and now answered None
C5_Witness ==
    /\ op = "ray_trace"
    /\ \E i \in 1..Len(m.log) : m.log[i] = <<"windloads.next", NONE>>
    /\ m.gmt.m1.col = 5000
    /\ m.gmt.m2.col = 5000

\* the orchestrator without its dome seeing driver
NoDomeSeeing(g) == [g EXCEPT !.domeseeing = None]

\* C6: a ray_trace with an exhausted dome seeing driver adds nothing to the
\* wavefront, raises no error and still propagates through the detector:
\* for the wavefront it is as if no dome seeing driver were attached.
C6_ExhaustedDomeSeeingSkipped ==
    [][(op' = "ray_trace" /\ m.domeseeing # None
            /\ DsExhausted(m.domeseeing[1])) =>
        /\ live'
        /\ ~Has(m'.log, "add")
        /\ m'.src.opd = <<>>
        /\ At(m'.log, "imgr") = {Len(m'.log)}
        /\ m'.src = ray_trace(NoDomeSeeing(m)).src
        /\ m'.imgr = ray_trace(NoDomeSeeing(m)).imgr
        /\ m'.gmt = ray_trace(NoDomeSeeing(m)).gmt]_vars

\* an exposure with a dome seeing sample is followed by one taken after the
\* driver ran out
C6_Witness ==
    /\ op = "ray_trace"
    /\ \E i \in 1..Len(m.log) : m.log[i] = <<"domeseeing.next", NONE>>
    /\ Len(m.imgr) >= 2
    /\ m.imgr[Len(m.imgr) - 1].opd # <<>>
    /\ m.imgr[Len(m.imgr)].opd = <<>>

\* C7: read_detector called twice in a row with no ray_trace in between
\* returns an all-zero buffer (nothing integrated) the second time.
C7_SecondReadIsZero ==
    (op = "read_detector" /\ reads >= 2) => psf.frame = <<>>

\* after at least one exposure the detector was read twice in a row
C7_Witness ==
    /\ op = "read_detector"
    /\ reads = 2
    /\ nadv >= 1

\* C8: compute_pssn changes neither the detector accumulation, nor the
\* mirror positions, nor a driver's cursor: the read_detector that follows
\* returns what it would have returned without the compute_pssn.
C8_ComputePssnFrame ==
    [][op' = "compute_pssn" =>
        /\ m'.imgr = m.imgr
        /\ m'.gmt = m.gmt
        /\ m'.src = m.src
        /\ m'.windloads = m.windloads
        /\ m'.domeseeing = m.domeseeing
        /\ m'.config = m.config
        /\ read_detector(m').ret = read_detector(m).ret]_vars

\* compute_pssn was called on an orchestrator holding an exposure taken
\* with both drivers attached and advanced
C8_Witness ==
    /\ op = "compute_pssn"
    /\ Len(m.imgr) >= 1
    /\ m.windloads # None /\ m.windloads[1].count > SKIP
    /\ m.domeseeing # None /\ m.domeseeing[1].cursor > 0

\* C10: with a matrix of exactly 5001 columns attached, the first ray_trace
\* applies column 5000 as rigid body update, the second finds the driver
\* exhausted, skips the update and completes normally.
C10_OneSampleThenSkip ==
    (op = "ray_trace" /\ m.windloads # None /\ m.windloads[1].ncols = 5001) =>
        /\ nadv - wlAt = 1 =>
            /\ \E i \in 1..Len(m.log) : m.log[i] = <<"update42", 5000>>
            /\ m.gmt.m1 = [col |-> 5000, rows |-> "..42"]
            /\ m.gmt.m2 = [col |-> 5000, rows |-> "42.."]
        /\ nadv - wlAt = 2 =>
            /\ \E i \in 1..Len(m.log) : m.log[i] = <<"windloads.next", NONE>>
            /\ ~Has(m.log, "update42")
            /\ m.gmt.m1.col = 5000 /\ m.gmt.m2.col = 5000
            /\ Has(m.log, "xpupil")
            /\ At(m.log, "imgr") = {Len(m.log)}
            /\ live

\* the second ray_trace after attaching a matrix of 5001 columns was made
C10_Witness ==
    /\ op = "ray_trace"
    /\ m.windloads # None /\ m.windloads[1].ncols = 5001
    /\ nadv - wlAt = 2

----------------------------------------------------------------------------
(* Claims on SpecRun                                                       *)

\* a step that puts a driver in place or replaces it by another one
DriverAttached ==
    \/ (m.domeseeing = None) # (m'.domeseeing = None)
    \/ (m.windloads = None) # (m'.windloads = None)
    \/ /\ m.domeseeing # None /\ m'.domeseeing # None
       /\ m.domeseeing[1].len # m'.domeseeing[1].len
    \/ /\ m.windloads # None /\ m'.windloads # None
       /\ m.windloads[1].ncols # m'.windloads[1].ncols

\* C9 as stated: in the CLI run and the web session every attach happens
\* before the first ray_trace on the orchestrator.
C9_AttachBeforeFirstAdvance ==
    [][DriverAttached => nadv = 0]_vars

\* C9 amended: every attach happens after exactly one ray_trace, the one of
\* the reference frame taken on the orchestrator without drivers, and before
\* the collection is created and the frame loop advances; no driver is
\* attached or replaced once the frame loop has started.
C9_AttachBeforeFrameLoop ==
    [][DriverAttached =>
        /\ nadv = 1
        /\ pc \in {"domeseeing", "windloads"}
        /\ psfs.frames = <<>> /\ fi = 0
        /\ m.imgr = <<>>
        /\ m.gmt = GmtOpticalModel_new.gmt
        /\ \/ m.domeseeing = None /\ m'.domeseeing # None
              /\ m'.windloads = m.windloads
           \/ m.windloads = None /\ m'.windloads # None
              /\ m'.domeseeing = m.domeseeing]_vars

\* a run with both drivers attached has advanced in its frame loop
C9_Witness ==
    /\ pc = "loop"
    /\ fi >= 1
    /\ m.domeseeing # None
    /\ m.windloads # None
    /\ wlAt = 1
    /\ nadv = fi + 1

----------------------------------------------------------------------------
(* Claims on Spec: the configuration                                       *)

\* C17: set_config changes the configuration of the orchestrator and nothing
\* else (optical state, drivers, detector and PSSn accumulators are as
\* before); the frame record read before the call keeps the configuration it
\* was created with, and a record read after it carries the new one.
C17_SetConfigOnlyConfig ==
    [][/\ op' = "set_config" =>
            /\ m'.config # m.config
            /\ [m' EXCEPT !.config = m.config, !.log = m.log] = m
            /\ psf' = psf
            /\ estimate' = estimate
            /\ read_detector(m').ret.config = m'.config
       /\ op' = "read_detector" => psf'.config = m.config]_vars

\* a frame was read, then the configuration replaced: the record differs
\* from the orchestrator
C17_Witness ==
    /\ op = "set_config"
    /\ psf.frame # <<>>
    /\ m.imgr # <<>>
    /\ psf.config # m.config

----------------------------------------------------------------------------
(* Claims on SpecRun: the configuration of the collection                  *)

\* C18: in the CLI run and in the web session every record pushed to the
\* collection holds the configuration the collection holds, and from
\* PSFs::from(&gmt) to the last read_detector of the frame loop the
\* configuration of the orchestrator is never replaced.
C18_RecordsShareCollectionConfig ==
    [][/\ \A i \in 1..Len(psfs'.frames) : psfs'.frames[i].config = psfs'.config
       /\ pc = "loop" =>
            /\ m'.config = m.config
            /\ psfs'.config = m.config
            /\ op' # "set_config"]_vars

\* a finished run with two frames labelled by the run's configuration
C18_Witness ==
    /\ pc = "done"
    /\ result = "ok"
    /\ Len(psfs.frames) >= 2
    /\ psfs.config # Config_new
    /\ psfs.frames[2].config = psfs.config

----------------------------------------------------------------------------
(* Claims on SpecRun: progress reporting                                   *)

\* the orchestrator and the collection after k iterations of the frame loop
RECURSIVE Frames(_, _, _)
Frames(g, c, k) ==
    IF k = 0 THEN [m |-> g, psfs |-> c]
    ELSE LET b == Frames(g, c, k - 1)
             r == read_detector(ray_trace(b.m))
             p == compute_pssn(r.self)
         IN [m |-> p.self,
             psfs |-> push(b.psfs, [r.ret EXCEPT !.pssn = Some(p.ret)])]

\* what a run with arguments a, a dome seeing series of ds samples and a
\* wind loads table of ncols columns holds after k frames, computed from
\* these inputs alone
Replay(a, ds, ncols, k) ==
    LET g0 == read_detector(ray_trace(GmtOpticalModel_new)).self
        g1 == set_config(g0, turbulence_effects(get_config(g0),
                                                 TurbulenceEffects(a)[1]))
        g2 == set_config(g1, cfd_case(get_config(g1), <<"cfd_case">>))
        g3 == IF a.domeseeing THEN domeseeing(g2, Some(ds)).self ELSE g2
        g4 == IF a.windloads THEN windloads(g3, Some(ncols)).self ELSE g3
    IN Frames(g4, PSFs_from(g4), k)

\* in the frame loop of a web run the orchestrator, the collection and the
\* images are those of the replay of the inputs
OutputsFromInputs ==
    (args.prog = "web" /\ pc = "loop") =>
        LET ds == IF args.domeseeing THEN m.domeseeing[1].len ELSE 0
            nc == IF args.windloads THEN m.windloads[1].ncols ELSE 0
            e  == Replay(args, ds, nc, fi)
        IN /\ m = e.m
           /\ psfs = e.psfs
           /\ images = <<"Diffraction Limited">>

\* a step that writes the counter / a get_frame_id poll
CounterWritten == progress'.writes # progress.writes
Polled == progress'.polls # progress.polls

\* the counter and the polls do not reach the outputs: a poll changes nothing
\* of the run, the state of the frame loop is the replay of the inputs
\* whatever the counter held and whenever it was polled, and the run ends
\* with the frames of the loop and the long exposure image
SideChannel ==
    /\ Polled => UNCHANGED <<libvars, runvars>>
    /\ OutputsFromInputs
    /\ (args.prog = "web" /\ pc = "loop" /\ pc' = "done") =>
            /\ m' = m
            /\ psfs' = psfs
            /\ result' = "ok" =>
                images' = <<"Diffraction Limited", "Long exposure PSF">>

----------------------------------------------------------------------------
(* Claims on Spec: attaching, reading out                                  *)

\* the outcomes of loading a dome seeing series / a wind loads table
DsLoads == {None} \cup {Some(n) : n \in DsLens}
WlLoads == {None} \cup {Some(n) : n \in LibNCols}

\* C21: an attach operation returns the input orchestrator with the driver
\* in place and nothing else changed (the other driver, the physics state
\* and the configuration are as before), or an error and no orchestrator;
\* it fails exactly when the source fails to load.
C21_AttachOnlyDriver ==
    [][/\ op' = "domeseeing" =>
            /\ live' => /\ m'.domeseeing # None
                        /\ [m' EXCEPT !.domeseeing = m.domeseeing, !.log = m.log] = m
            /\ \A load \in DsLoads :
                /\ domeseeing(m, load).ok <=> load # None
                /\ load # None => domeseeing(m, load).self.domeseeing
                                        = Some(DomeSeeing_new(load[1]))
       /\ op' = "windloads" =>
            /\ live' => /\ m'.windloads # None
                        /\ [m' EXCEPT !.windloads = m.windloads, !.log = m.log] = m
            /\ \A load \in WlLoads :
                /\ windloads(m, load).ok <=> load # None
                /\ load # None => windloads(m, load).self.windloads
                                        = Some(WindLoads_new(load[1]))
       /\ op' \in {"domeseeing", "windloads"} =>
            /\ ~live' => m' = m
            /\ UNCHANGED <<psf, estimate, nadv, reads>>]_vars

\* wind loads attached to an orchestrator that already advanced, carries a
\* dome seeing driver and a configuration of its own
C21_Witness ==
    /\ op = "windloads"
    /\ live
    /\ m.windloads # None
    /\ m.domeseeing # None
    /\ m.config # Config_new
    /\ nadv > 0

\* C23: read_detector returns the accumulation of exactly the advances made
\* since the previous read_detector (since construction when there was
\* none): every advance adds its exposure to the accumulation, a read-out
\* returns the accumulation and empties it, nothing else touches it.
C23_FrameIsExposuresSinceRead ==
    [][/\ op' = "ray_trace" =>
            /\ m'.imgr = Append(m.imgr, m'.src)
            /\ psf' = psf
       /\ op' = "read_detector" =>
            /\ psf'.frame = m.imgr
            /\ m'.imgr = <<>>
       /\ op' \notin {"ray_trace", "read_detector"} =>
            /\ m'.imgr = m.imgr
            /\ psf' = psf
       /\ Len(m'.imgr) <= nadv']_vars

\* three advances, a read-out after the first: the second read-out holds
\* the exposures of the last two advances only
C23_Witness ==
    /\ op = "read_detector"
    /\ reads = 1
    /\ nadv = 3
    /\ Len(psf.frame) = 2
    /\ m.imgr = <<>>

----------------------------------------------------------------------------
(* Claims on SpecWindLoads: the cursor                                     *)

\* the number of next() calls so far that returned a sample
Samples(o) == Cardinality({k \in 1..Len(o) : o[k] # None})

\* C22: the cursor of a driver is 5000 + 200 * j, j the number of next()
\* calls so far that returned a sample; a call that returns a sample raises
\* the cursor by 200, one that returns None leaves cursor, stride and matrix
\* unchanged.
C22_CursorIsSkipPlusStrides ==
    [][/\ wl.count = 5000 + 200 * Samples(out)
       /\ wl'.count = 5000 + 200 * Samples(out')
       /\ Len(out') = Len(out) + 1
       /\ out'[Len(out')] # None =>
            /\ wl'.count = wl.count + 200
            /\ wl'.step = wl.step
            /\ wl'.ncols = wl.ncols
       /\ out'[Len(out')] = None => wl' = wl]_vars

\* two samples were returned, then None more than once
C22_Witness ==
    /\ Samples(out) = 2
    /\ Len(out) >= 4
    /\ wl.count = 5400

----------------------------------------------------------------------------
(* Claims on SpecRunClient                                                 *)

\* the session opened by this step
Submitted(s) == cl.pc = "client" /\ cl.nsub + 1 = s /\ cl'.nsub = s

\* C24: with neither dome seeing nor wind loads selected no turbulence frame
\* is generated: the CLI returns "you must select either domeseeing or
\* windloads" with no driver attached and no frame pushed, the server
\* function returns an empty image list without entering the frame loop, and
\* the web client sets its status to Error without calling the server.
C24_NoEffectsNoFrames ==
    [][/\ (pc = "effects" /\ pc' # pc /\ TurbulenceEffects(args) = None) =>
            /\ pc' = "done"
            /\ args.prog = "cli" =>
                result' = "you must select either domeseeing or windloads"
            /\ args.prog = "web" => (result' = "ok" /\ images' = <<>>)
            /\ m'.domeseeing = None /\ m'.windloads = None
            /\ psfs'.frames = <<>> /\ fi' = 0
       /\ (pc # "idle" /\ TurbulenceEffects(args) = None) =>
            /\ pc' \in {"new", "reference", "effects", "done"}
            /\ nadv' <= 1
       /\ \A s \in 1..MaxSubmits :
            Submitted(s) =>
                IF cl'.srv[s].pc = "none"
                THEN /\ cl'.status = GenerationStatus(s, "Error", None, <<>>)
                     /\ cl'.poller[s].pc = "none"
                     /\ cl'.gen[s].pc = "none"
                     /\ cl'.srv = cl.srv
                ELSE LET config == cl'.srv[s].config[1] IN
                     config.domeseeing \/ config.windloads]_vars

\* the form was submitted with no effect selected: Error, and no call
C24_Witness ==
    /\ cl.pc = "client"
    /\ cl.nsub = 1
    /\ cl.status = GenerationStatus(1, "Error", None, <<>>)
    /\ \A s \in 1..MaxSubmits : cl.srv[s].pc = "none" /\ cl.gen[s].pc = "none"

----------------------------------------------------------------------------
(* Claims on SpecRun: the samples of a run                                 *)

\* the number of events ev in a call log
Count(log, ev) == Cardinality(At(log, ev))

\* C25: each advance polls every attached driver exactly once and a driver
\* that is not attached is not polled; the k-th advance of the frame loop
\* (k from 1) applies column 5000 + 200 * (k - 1) of the wind loads while
\* the driver is not exhausted: the advance of the reference frame consumes
\* no sample, no sample is skipped or applied twice.
C25_OneSamplePerAdvance ==
    [][nadv' = nadv + 1 =>
        /\ pc = "reference" =>
            /\ m.windloads = None /\ m'.windloads = None
            /\ m.domeseeing = None /\ m'.domeseeing = None
            /\ m'.gmt = GmtOpticalModel_new.gmt
        /\ Count(ray_trace(m).log, "windloads.next")
                = IF m.windloads = None THEN 0 ELSE 1
        /\ Count(ray_trace(m).log, "domeseeing.next")
                = IF m.domeseeing = None THEN 0 ELSE 1
        /\ m.windloads = None => (m'.windloads = None /\ m'.gmt = m.gmt)
        /\ m.domeseeing = None => (m'.domeseeing = None /\ m'.src.opd = <<>>)
        /\ (pc = "loop" /\ m.windloads # None) =>
            LET k == fi'
                applied == 5000 + 200 * (k - 1)
            IN IF applied < m.windloads[1].ncols
               THEN /\ m'.gmt.m1.col = applied
                    /\ m'.gmt.m2.col = applied
                    /\ m'.windloads[1].count = 5000 + 200 * k
               ELSE /\ m'.gmt = m.gmt
                    /\ m'.windloads = m.windloads
        /\ (pc = "loop" /\ m.domeseeing # None) =>
            LET k == fi' IN
            IF k <= m.domeseeing[1].len
            THEN /\ m'.src.opd = <<k - 1>>
                 /\ m'.domeseeing[1].cursor = k
            ELSE /\ m'.src.opd = <<>>
                 /\ m'.domeseeing = m.domeseeing]_vars

\* the second advance of the frame loop applied column 5200
C25_Witness ==
    /\ pc = "loop"
    /\ fi = 2
    /\ nadv = 3
    /\ wlAt = 1
    /\ m.windloads # None
    /\ m.gmt.m1.col = 5200

\* C26: a run that reaches the frame loop pushes exactly n_frame records
\* (N_SAMPLE in the web session), one per advance and in the order of the
\* advances, whether or not a driver becomes exhausted in the loop; the
\* count reported after the loop is n_frame.
C26_OneRecordPerFrame ==
    [][/\ pc' = "loop" =>
            /\ len(psfs') = fi'
            /\ nadv' = fi' + 1
       /\ (pc = "loop" /\ nadv' = nadv + 1) =>
            /\ psfs'.frames = Append(psfs.frames, psf')
            /\ psf'.frame = <<m'.src>>
            /\ fi' = fi + 1
       /\ (pc = "loop" /\ pc' = "done") =>
            /\ len(psfs') = args.n_frame
            /\ nadv' = args.n_frame + 1]_vars

\* three frames were pushed although the wind loads gave a single sample
\* and the dome seeing none
C26_Witness ==
    /\ pc = "done"
    /\ result = "ok"
    /\ args.n_frame = 3
    /\ len(psfs) = 3
    /\ m.windloads # None /\ m.windloads[1].ncols = 5001
    /\ m.domeseeing # None /\ m.domeseeing[1].len = 0

----------------------------------------------------------------------------
(* Claims on SpecClient: the progress of a session                         *)

\* the poller of session s shows the counter it got in this step
Loads(s) ==
    /\ cl.pc = "client"
    /\ cl.poller[s].pc = "get" /\ cl'.poller[s].pc = "wait"
    /\ cl'.status.progress # cl.status.progress

\* C27: the value that the poller of a session gets from get_frame_id is
\* the frame index stored by the generation of that session, never one
\* stored by another session or left by an earlier run, and the progress
\* of a session does not decrease while its generation is Processing.
C27_ProgressOfOwnRun ==
    [][/\ \A s \in Sessions : Loads(s) => cl.FRAME_ID.by = s
       /\ ( /\ cl.pc = "client"
            /\ cl.status.status = "Processing"
            /\ cl'.status.status = "Processing"
            /\ cl'.status.session_id = cl.status.session_id )
          => cl'.status.progress[1] >= cl.status.progress[1]]_vars

\* the poller of session s handles an answer of get_frame_id in this step
Updates(s) == cl.pc = "client" /\ cl.poller[s].pc = "get" /\ cl'.poller[s].pc = "wait"

\* C28: the poller of a submit stops after the generation of that submit
\* has set Complete or Error, also when the form is submitted again in
\* between, and a poller changes the status only of its own session, and
\* there only the progress.
C28_PollerStops ==
    /\ <>[](cl.pc = "client" =>
                \A s \in Sessions : cl.gen[s].pc = "done" => cl.poller[s].pc = "stopped")
    /\ [][\A s \in Sessions : Updates(s) =>
            /\ cl'.status # cl.status => cl.status.session_id = s
            /\ cl'.status = [cl.status EXCEPT !.progress = cl'.status.progress]]_vars

\* the poller of the first submit is still polling after its generation
\* has finished, because the form was submitted again
C28_Witness ==
    /\ cl.pc = "client"
    /\ cl.gen[1].pc = "done"
    /\ cl.poller[1].pc = "get"
    /\ cl.status.session_id = 2
    /\ cl.status.status = "Processing"

----------------------------------------------------------------------------
(* Claims on SpecCaseFair: the end of the data                             *)

\* the samples a driver of ncols columns has still to give at cursor count
Remaining(w) == IF w.count < w.ncols THEN (w.ncols - w.count + STEP - 1) \div STEP
                ELSE 0

----------------------------------------------------------------------------
(* Claims on SpecClient: the status of a generation                        *)

\* C30: when the success handler of psf_generation runs, the list it got
\* has at least two entries, so images[1] is there; from then on the
\* status stays Processing until psf_animation returns, and at that
\* return it becomes Complete with three images or Error with none.
C30_ProcessingUntilAnimation ==
    /\ [](cl.pc = "client" => \A s \in Sessions : cl.gen[s].pc # "panicked")
    /\ [][cl.pc = "client" => \A s \in Sessions :
            /\ cl'.gen[s].pc = "animation" => cl'.status.status = "Processing"
            /\ (cl.gen[s].pc = "animation" /\ cl'.gen[s].pc = "done") =>
                \/ /\ cl'.status.status = "Complete"
                   /\ Len(cl'.status.images) = 3
                \/ /\ cl'.status.status = "Error"
                   /\ cl'.status.images = <<>>]_vars

----------------------------------------------------------------------------
(* Claims on SpecPSFs                                                      *)

\* every tracked pixel of every record of the collection
AllPixels == {<<i, k>> : i \in 1..Len(psfs.frames), k \in 1..NPix}

\* d is the largest pixel value over all records of the collection
IsCollectionMax(d) ==
    /\ \A q \in AllPixels : psfs.frames[q[1]].frame.px[q[2]] <= d
    /\ \E q \in AllPixels : psfs.frames[q[1]].frame.px[q[2]] = d

\* C11: save_all_frames renders every frame of a collection with one and
\* the same divisor, the maximum pixel value over all frames, never a
\* per-frame maximum; for a collection of one frame it is that frame's own
\* maximum.
C11_GlobalDivisor ==
    (files # None /\ Len(psfs.frames) >= 1) =>
        /\ Len(files[1]) = Len(psfs.frames)
        /\ \A i \in 1..Len(files[1]) :
            /\ files[1][i].px = psfs.frames[i].frame.px
            /\ IsCollectionMax(files[1][i].divisor)
            /\ files[1][i].divisor = files[1][1].divisor
        /\ Len(psfs.frames) = 1 =>
            /\ \A k \in 1..NPix : files[1][1].px[k] <= files[1][1].divisor
            /\ \E k \in 1..NPix : files[1][1].px[k] = files[1][1].divisor

\* two frames with different peaks were rendered
C11_Witness ==
    /\ files # None
    /\ Len(psfs.frames) >= 2
    /\ psfs.frames[1].frame.px = <<1, 0>>
    /\ psfs.frames[2].frame.px = <<0, 2>>
    /\ files[1][1].divisor = 2

\* the sum of pixel k over the first i records
RECURSIVE PixelSum(_, _)
PixelSum(k, i) ==
    IF i = 0 THEN 0 ELSE psfs.frames[i].frame.px[k] + PixelSum(k, i - 1)

\* C12: sum() returns the record whose buffer is the element-wise sum of
\* the buffers of all pushed frames; with no frame pushed it is the all-zero
\* buffer of the detector size, 760 x 760 elements.
C12_SumIsElementwise ==
    long # None =>
        /\ long[1].px = sum(psfs).frame.px
        /\ sum(psfs).frame.n = 760 * 760
        /\ Len(sum(psfs).frame.px) = NPix
        /\ \A k \in 1..NPix :
            sum(psfs).frame.px[k] = PixelSum(k, Len(psfs.frames))
        /\ Len(psfs.frames) = 0 =>
            \A k \in 1..NPix : sum(psfs).frame.px[k] = 0

\* two frames were summed
C12_Witness ==
    /\ long # None
    /\ Len(psfs.frames) = 2
    /\ psfs.frames[1].frame.px = <<1, 2>>
    /\ long[1].px = <<3, 4>>

\* C13: the long exposure is rendered with its own maximum as divisor,
\* whatever the maximum of the collection, and making it leaves the frames
\* and the divisor of their images as they are.
C13_LongOwnDivisor ==
    [][(long' # None) =>
        /\ \A k \in 1..NPix : long'[1].px[k] <= long'[1].divisor
        /\ \E k \in 1..NPix : long'[1].px[k] = long'[1].divisor
        /\ (long = None) => (files' = files /\ psfs' = psfs)
        /\ (files' # None /\ Len(psfs'.frames) >= 1) =>
            \A i \in 1..Len(files'[1]) :
                files'[1][i].divisor = GlobalMax(psfs')]_vars

\* the long exposure peaks above every short exposure, whose images were
\* written before it
C13_Witness ==
    /\ long # None
    /\ files # None
    /\ Len(psfs.frames) >= 2
    /\ long[1].divisor = 4
    /\ files[1][1].divisor = 2

----------------------------------------------------------------------------
(* Claims on SpecBatch                                                     *)

Running == {i \in 1..batch.n : batch.tasks[i] = "running"}

\* the task of case i was spawned by this step
Spawned(i) == batch.tasks[i] = "idle" /\ batch'.tasks[i] # "idle"

\* C14: at most 8 case tasks run at any moment; no task of the next chunk
\* is spawned before every task of the current chunk has completed and has
\* been awaited.
C14_AtMostEightTasks ==
    [][/\ Cardinality({i \in 1..batch.n : batch'.tasks[i] = "running"}) <= 8
       /\ \A i \in 1..batch.n :
            Spawned(i) =>
                \A k \in 1..batch.n :
                    (k - 1) \div 8 < (i - 1) \div 8 =>
                        /\ batch.tasks[k] = "ok"
                        /\ CaseKey(k) \in DOMAIN batch.pssns]_vars

\* a task of the second chunk runs after the eight of the first ran together
C14_Witness ==
    /\ batch.n >= 9
    /\ batch.tasks[9] = "running"
    /\ \A k \in 1..8 : CaseKey(k) \in DOMAIN batch.pssns

\* C15: an entry enters the map only after the task of its case has
\* completed, a task changes nothing but its own state, and when every case
\* succeeds the final map has exactly one entry per case of the baseline,
\* under the identifier of the case, whatever the order of completion.
C15_MergeAfterCompletion ==
    [][/\ \A i \in 1..batch.n :
            (CaseKey(i) \in DOMAIN batch'.pssns
                    /\ CaseKey(i) \notin DOMAIN batch.pssns) =>
                /\ batch.tasks[i] = "ok"
                /\ batch'.pssns[CaseKey(i)] = CasePssn(i)
                /\ batch'.tasks = batch.tasks
       /\ (batch'.tasks # batch.tasks) =>
            /\ batch'.pssns = batch.pssns
            /\ Cardinality({i \in 1..batch.n : batch'.tasks[i] # batch.tasks[i]}) = 1
       /\ (batch'.pc = "done" /\ batch'.result = "ok") =>
            /\ DOMAIN batch'.written[1] = {CaseKey(i) : i \in 1..batch.n}
            /\ \A i \in 1..batch.n : batch'.written[1][CaseKey(i)] = CasePssn(i)]_vars

\* nine cases, finished out of order, all in the written map
C15_Witness ==
    /\ batch.pc = "done"
    /\ batch.result = "ok"
    /\ batch.n = 9
    /\ Cardinality(DOMAIN batch.written[1]) = 9

\* C16 as stated: when the task of one case fails, the results of the cases
\* that completed before it and were merged are still in the aggregated
\* output.
C16_CompletedCasesRecorded ==
    (batch.pc = "done" /\ batch.result = "task_err") =>
        \A i \in 1..batch.n :
            CaseKey(i) \in DOMAIN batch.pssns =>
                /\ batch.written # None
                /\ CaseKey(i) \in DOMAIN batch.written[1]

----------------------------------------------------------------------------
(* Claims on SpecEnclosure                                                 *)

\* the zenith angle of a pointing, an elevation converted as 90 - elevation
ZenithOf(pointing) ==
    IF pointing.kind = "elevation"
    THEN 90 - ElevationAngle_as_u32(pointing.angle)
    ELSE ZenithAngle_as_u32(pointing.angle)

\* C20: for every wind speed of {2, 7, 12, 17} and every pointing the
\* enclosure is "os" exactly when wind speed <= 7, "cd" exactly when wind
\* speed > 7 and zenith < 60, "cs" exactly when wind speed > 7 and
\* zenith >= 60; it is one of the three and depends on nothing else.
C20_EnclosureConfig ==
    enc.pc = "done" =>
        LET ws == WindSpeed_as_u32(enc.wind_speed)
            zenith == ZenithOf(enc.pointing)
            enclosure == enc.case[3]
        IN /\ ws \in {2, 7, 12, 17}
           /\ enclosure \in {"os", "cd", "cs"}
           /\ enclosure = "os" <=> ws <= 7
           /\ enclosure = "cd" <=> (ws > 7 /\ zenith < 60)
           /\ enclosure = "cs" <=> (ws > 7 /\ zenith >= 60)
           /\ enc.case[1] = zenith

\* an elevation of 30 degrees (zenith 60) at 12 m/s gives closed sky
C20_Witness ==
    /\ enc.pc = "done"
    /\ enc.wind_speed = "Twelve"
    /\ enc.pointing = [kind |-> "elevation", angle |-> "Thirty"]
    /\ enc.case[3] = "cs"

====
